---- MODULE Spec2Model ----
(***************************************************************************)
(* Access-control engine and invitation lifecycle of cre-studio-backend:   *)
(* the user table with its invitation fields, the membership table, the    *)
(* user-management viewset, the resend and accept-invitation endpoints.    *)
(* Time is counted in whole days.  0 stands for a null id or token and     *)
(* NoTime for a null timestamp.  property_group[p] = 0 says that no        *)
(* Property row p exists.  apps[i] is the state of App row i and           *)
(* app_memberships the UserAppMembership table.  pending[r] is the request *)
(* that worker r is in the middle of, with the row it has read.            *)
(***************************************************************************)
EXTENDS Integers, FiniteSets, Sequences, TLC

\* ---------------------------------------------------------------- bounds
MaxUsers == 3
MaxTime == 15
MaxTokens == 2
MaxMemberships == 2

\* ------------------------------------------------------ program constants
ExpiryDays == 7

GROUP_ADMIN == "group_admin"
PROPERTY_ADMIN == "property_admin"
TENANT == "tenant"
SUPER_USER == "super_user"

PropertyUserRole == {TENANT, PROPERTY_ADMIN, GROUP_ADMIN}
RoleChoices == PropertyUserRole \cup {SUPER_USER}

\* ------------------------------------------------------------ input sets
UserIds == 1..MaxUsers
TokenIds == 1..MaxTokens
Properties == {1, 2}
Groups == {1, 2}
NoTime == -1
NoRole == "none"
Absent == "absent"
TickSteps == {ExpiryDays, ExpiryDays + 1}

AppIds == {1, 2}
ProcIds == {1, 2}

VARIABLES users, nextId, memberships, property_group, now, nextToken,
          outbox, resp, apps, app_memberships, pending

vars == <<users, nextId, memberships, property_group, now, nextToken,
          outbox, resp, apps, app_memberships, pending>>

\* ------------------------------------------------------------ user rows
\* UserManager._create_user: every new row starts inactive, with the
\* invitation fields at their model defaults.
NewUser(is_staff, is_superuser) ==
    [is_superuser |-> is_superuser,
     is_staff |-> is_staff,
     is_active |-> FALSE,
     invitation_sent |-> FALSE,
     invitation_accepted |-> FALSE,
     invitation_token |-> 0,
     invitation_sent_at |-> NoTime,
     invitation_accepted_at |-> NoTime]

create_user == NewUser(FALSE, FALSE)

create_superuser == NewUser(TRUE, TRUE)

Existing == DOMAIN users

\* What the last request returned: the handler, the HTTP status and the
\* error message (empty on success).
Response(op, status, err) == [op |-> op, status |-> status, err |-> err]

\* What a read request or a property request returned, with the actor
\* and the row it addressed (0 when it addressed none)
Answer(op, status, actor, target) ==
    [op |-> op, status |-> status, err |-> "", actor |-> actor,
     target |-> target]

\* A worker that is between two requests
Idle ==
    [op |-> "idle", pc |-> "idle", status |-> 0, actor |-> 0, target |-> 0,
     row |-> create_user, role |-> NoRole, property_id |-> 0,
     property_group_id |-> 0, is_active |-> Absent, before |-> {}]

\* A worker that has answered its request with the given status
Done(op, status) == [Idle EXCEPT !.op = op, !.pc = "done", !.status = status]

\* A worker in the middle of request op, about to run step pc on the row
\* it has read for user t
Job(op, pc, actor, t, row) ==
    [Idle EXCEPT !.op = op, !.pc = pc, !.actor = actor, !.target = t,
                 !.row = row]

\* ----------------------------------------------------------- tenancy graph
MembershipsOf(u) == {m \in memberships : m.user = u}

GroupProperties(g) == {p \in Properties : property_group[p] = g}

Membership(u, role, property_id, property_group_id) ==
    [user |-> u, role |-> role,
     property |-> property_id,
     property_group |-> IF property_id # 0 THEN 0 ELSE property_group_id]

\* The Property rows that exist
PropertyIds == {p \in Properties : property_group[p] # 0}

\* --------------------------------------------------------- scope resolver
\* Managed properties that leave out the property admin memberships
get_managed_properties_GroupsOnly(a) ==
    IF users[a].is_superuser THEN PropertyIds
    ELSE {p \in PropertyIds :
            \E m \in MembershipsOf(a) :
               /\ m.role = GROUP_ADMIN
               /\ m.property_group # 0
               /\ p \in GroupProperties(m.property_group)}

\* CustomUser.get_managed_properties
get_managed_properties(a) ==
    IF users[a].is_superuser THEN PropertyIds
    ELSE {p \in PropertyIds :
            \E m \in MembershipsOf(a) :
               \/ /\ m.role = GROUP_ADMIN
                  /\ m.property_group # 0
                  /\ p \in GroupProperties(m.property_group)
               \/ /\ m.role = PROPERTY_ADMIN
                  /\ m.property # 0
                  /\ p = m.property}

\* UserManagementViewSet.my_manageable_scopes: the ids in the "properties"
\* list of the answer
scopes_properties(a) ==
    IF users[a].is_superuser THEN PropertyIds
    ELSE UNION {IF m.role = GROUP_ADMIN /\ m.property_group # 0
                THEN GroupProperties(m.property_group)
                ELSE IF m.role = PROPERTY_ADMIN /\ m.property # 0
                THEN {m.property}
                ELSE {} : m \in MembershipsOf(a)}

\* UserManagementViewSet.my_manageable_scopes: the ids in the
\* "property_groups" list of the answer
scopes_property_groups(a) ==
    IF users[a].is_superuser THEN Groups
    ELSE {m.property_group :
            m \in {x \in MembershipsOf(a) :
                     x.role = GROUP_ADMIN /\ x.property_group # 0}}

\* PropertyViewSet.get_queryset: the group admin memberships decide alone
\* when there is one, else the property admin memberships, else the
\* tenant memberships.
PropertyViewSet_get_queryset(a) ==
    IF users[a].is_superuser THEN PropertyIds
    ELSE LET group_ids ==
                 {m.property_group :
                    m \in {x \in MembershipsOf(a) :
                             x.role = GROUP_ADMIN /\ x.property_group # 0}}
             prop_ids ==
                 {m.property :
                    m \in {x \in MembershipsOf(a) :
                             x.role = PROPERTY_ADMIN /\ x.property # 0}}
             tenant_prop_ids ==
                 {m.property :
                    m \in {x \in MembershipsOf(a) :
                             x.role = TENANT /\ x.property # 0}}
         IN  IF group_ids # {}
             THEN {p \in PropertyIds : property_group[p] \in group_ids}
             ELSE IF prop_ids # {}
             THEN prop_ids \cap PropertyIds
             ELSE tenant_prop_ids \cap PropertyIds

\* CustomUser.get_managed_users
get_managed_users(a) ==
    IF users[a].is_superuser THEN Existing
    ELSE {u \in Existing :
            \E m \in MembershipsOf(a) :
               \/ /\ m.role = GROUP_ADMIN
                  /\ m.property_group # 0
                  /\ \E t \in MembershipsOf(u) :
                        /\ t.role \in {PROPERTY_ADMIN, TENANT}
                        /\ \/ t.property \in GroupProperties(m.property_group)
                           \/ t.property_group = m.property_group
               \/ /\ m.role = PROPERTY_ADMIN
                  /\ m.property # 0
                  /\ \E t \in MembershipsOf(u) :
                        t.property = m.property /\ t.role = TENANT}

\* UserManagementViewSet.get_queryset
get_queryset(a) ==
    IF users[a].is_superuser THEN Existing
    ELSE {u \in Existing :
            \E m \in MembershipsOf(a) :
               \/ /\ m.role = GROUP_ADMIN
                  /\ m.property_group # 0
                  /\ \/ \E t \in MembershipsOf(u) :
                           /\ t.property \in GroupProperties(m.property_group)
                           /\ t.role \in {PROPERTY_ADMIN, TENANT}
                     \/ \E t \in MembershipsOf(u) :
                           /\ t.property_group = m.property_group
                           /\ t.role \in {PROPERTY_ADMIN, TENANT}
               \/ /\ m.role = PROPERTY_ADMIN
                  /\ m.property # 0
                  /\ \E t \in MembershipsOf(u) :
                        t.property = m.property /\ t.role = TENANT}

\* ------------------------------------------------------ permission decider
\* CanManageUsers.has_permission
has_permission(a) ==
    \/ users[a].is_superuser
    \/ \E m \in MembershipsOf(a) : m.role \in {PROPERTY_ADMIN, GROUP_ADMIN}

\* An object permission without the rule that only superusers manage
\* superusers
has_object_permission_NoSuperuserRule(a, obj) ==
    IF users[a].is_superuser THEN TRUE
    ELSE IF a = obj THEN FALSE
    ELSE \E rm \in MembershipsOf(a) :
           \/ /\ rm.role = GROUP_ADMIN
              /\ rm.property_group # 0
              /\ \E tm \in MembershipsOf(obj) :
                    IF tm.property # 0
                       /\ property_group[tm.property] = rm.property_group
                    THEN tm.role \in {PROPERTY_ADMIN, TENANT}
                    ELSE /\ tm.property_group = rm.property_group
                         /\ tm.role \in {PROPERTY_ADMIN, TENANT}
           \/ /\ rm.role = PROPERTY_ADMIN
              /\ rm.property # 0
              /\ \E tm \in MembershipsOf(obj) :
                    tm.property = rm.property /\ tm.role = TENANT

\* An object permission whose group admin branch accepts a target on a
\* property of any group
has_object_permission_AnyGroup(a, obj) ==
    IF users[a].is_superuser THEN TRUE
    ELSE IF a = obj THEN FALSE
    ELSE IF users[obj].is_superuser THEN users[a].is_superuser
    ELSE \E rm \in MembershipsOf(a) :
           \/ /\ rm.role = GROUP_ADMIN
              /\ rm.property_group # 0
              /\ \E tm \in MembershipsOf(obj) :
                    IF tm.property # 0
                    THEN tm.role \in {PROPERTY_ADMIN, TENANT}
                    ELSE /\ tm.property_group = rm.property_group
                         /\ tm.role \in {PROPERTY_ADMIN, TENANT}
           \/ /\ rm.role = PROPERTY_ADMIN
              /\ rm.property # 0
              /\ \E tm \in MembershipsOf(obj) :
                    tm.property = rm.property /\ tm.role = TENANT

\* CanManageUsers.has_object_permission
has_object_permission(a, obj) ==
    IF users[a].is_superuser THEN TRUE
    ELSE IF a = obj THEN FALSE
    ELSE IF users[obj].is_superuser THEN users[a].is_superuser
    ELSE \E rm \in MembershipsOf(a) :
           \/ /\ rm.role = GROUP_ADMIN
              /\ rm.property_group # 0
              /\ \E tm \in MembershipsOf(obj) :
                    IF tm.property # 0
                       /\ property_group[tm.property] = rm.property_group
                    THEN tm.role \in {PROPERTY_ADMIN, TENANT}
                    ELSE /\ tm.property_group = rm.property_group
                         /\ tm.role \in {PROPERTY_ADMIN, TENANT}
           \/ /\ rm.role = PROPERTY_ADMIN
              /\ rm.property # 0
              /\ \E tm \in MembershipsOf(obj) :
                    tm.property = rm.property /\ tm.role = TENANT

\* A role check whose property admin branch accepts any property
can_create_role_AnyProperty(a, target_role, property_id, property_group_id) ==
    IF users[a].is_superuser THEN TRUE
    ELSE \E m \in MembershipsOf(a) :
           \/ /\ m.role = GROUP_ADMIN
              /\ m.property_group # 0
              /\ target_role \in {PROPERTY_ADMIN, TENANT}
              /\ \/ property_group_id = m.property_group
                 \/ /\ property_id \in Properties
                    /\ property_group[property_id] = m.property_group
           \/ /\ m.role = PROPERTY_ADMIN
              /\ m.property # 0
              /\ target_role = TENANT

\* A role check that lets a group admin assign every role inside the
\* group
can_create_role_AnyRole(a, target_role, property_id, property_group_id) ==
    IF users[a].is_superuser THEN TRUE
    ELSE \E m \in MembershipsOf(a) :
           \/ /\ m.role = GROUP_ADMIN
              /\ m.property_group # 0
              /\ \/ property_group_id = m.property_group
                 \/ /\ property_id \in Properties
                    /\ property_group[property_id] = m.property_group
           \/ /\ m.role = PROPERTY_ADMIN
              /\ m.property # 0
              /\ target_role = TENANT
              /\ property_id = m.property

\* CanCreateUserWithRole.can_create_role
can_create_role(a, target_role, property_id, property_group_id) ==
    IF users[a].is_superuser THEN TRUE
    ELSE \E m \in MembershipsOf(a) :
           \/ /\ m.role = GROUP_ADMIN
              /\ m.property_group # 0
              /\ target_role \in {PROPERTY_ADMIN, TENANT}
              /\ \/ property_group_id = m.property_group
                 \/ /\ property_id \in Properties
                    /\ property_group[property_id] = m.property_group
           \/ /\ m.role = PROPERTY_ADMIN
              /\ m.property # 0
              /\ target_role = TENANT
              /\ property_id = m.property

\* A role-specific validation that asks for the scope of the role and
\* lets the other scope pass
RoleScopeValid_RequiredOnly(role, property_id, property_group_id) ==
    IF role = SUPER_USER
    THEN property_id = 0 /\ property_group_id = 0
    ELSE IF role = GROUP_ADMIN
    THEN property_group_id # 0
    ELSE property_id # 0

\* Role-specific validation shared by the create and update serializers:
\* TRUE when the role/scope combination is structurally acceptable.
RoleScopeValid(role, property_id, property_group_id) ==
    IF role = SUPER_USER
    THEN property_id = 0 /\ property_group_id = 0
    ELSE IF role = GROUP_ADMIN
    THEN property_group_id # 0 /\ property_id = 0
    ELSE property_id # 0 /\ property_group_id = 0

\* UserManagementCreateSerializer.validate: "ok", "permission",
\* "validation" or "invalid_id" (the permission check runs first, the
\* lookup of the named property last).
CreateValidate(a, role, property_id, property_group_id) ==
    IF ~can_create_role(a, role, property_id, property_group_id)
    THEN "permission"
    ELSE IF ~RoleScopeValid(role, property_id, property_group_id)
    THEN "validation"
    ELSE IF property_id # 0 /\ property_id \notin PropertyIds
    THEN "invalid_id"
    ELSE "ok"

\* UserManagementUpdateSerializer.validate: role checks only when a role
\* is supplied.
UpdateValidate(a, role, property_id, property_group_id) ==
    IF role # NoRole
       /\ ~can_create_role(a, role, property_id, property_group_id)
    THEN "permission"
    ELSE IF role # NoRole
            /\ ~RoleScopeValid(role, property_id, property_group_id)
    THEN "validation"
    ELSE IF property_id # 0 /\ property_id \notin PropertyIds
    THEN "invalid_id"
    ELSE "ok"

\* get_object of a detail route: the row must be in the actor's queryset
\* (404 otherwise) and pass the object permission (403 otherwise).
ObjectDenied(a, t) ==
    IF ~has_permission(a) THEN "forbidden"
    ELSE IF t \notin get_queryset(a) THEN "not_found"
    ELSE IF ~has_object_permission(a, t) THEN "forbidden"
    ELSE "ok"

DeniedStatus(err) == IF err = "not_found" THEN 404 ELSE 403

\* ------------------------------------------------------ invitation lifecycle
\* The expiry test with the boundary day counted as expired
Expired_AtSeven(u) ==
    /\ users[u].invitation_sent_at # NoTime
    /\ now >= users[u].invitation_sent_at + ExpiryDays

\* AcceptInvitationView.get, the expiry test
Expired(u) ==
    /\ users[u].invitation_sent_at # NoTime
    /\ now > users[u].invitation_sent_at + ExpiryDays

\* AcceptInvitationView.get, the order of the checks after the lookup:
\* the expiry test runs before the already-accepted test.
RedeemOutcome(u) ==
    IF Expired(u) THEN "expired"
    ELSE IF users[u].invitation_accepted THEN "already_accepted"
    ELSE IF users[u].invitation_sent_at = NoTime THEN "crash"
    ELSE "ok"

\* An acceptance that forgets to activate the account
Accepted_NoActivate(row) ==
    [row EXCEPT !.invitation_accepted = TRUE,
                !.invitation_accepted_at = now]

\* An acceptance that also consumes the token
Accepted_ClearToken(row) ==
    [row EXCEPT !.invitation_accepted = TRUE,
                !.invitation_accepted_at = now,
                !.is_active = TRUE,
                !.invitation_token = 0]

\* AcceptInvitationView.get, the fields written on success
Accepted(row) ==
    [row EXCEPT !.invitation_accepted = TRUE,
                !.invitation_accepted_at = now,
                !.is_active = TRUE]

Holders(tok) == {u \in Existing : users[u].invitation_token = tok}

\* AcceptInvitationView.get
Redeem(tok) ==
    LET holders == Holders(tok) IN
    /\ IF holders = {}
       THEN /\ resp' = Response("redeem", 400, "invalid_token")
            /\ users' = users
       ELSE IF Cardinality(holders) > 1
       THEN /\ resp' = Response("redeem", 500, "crash")
            /\ users' = users
       ELSE LET u == CHOOSE h \in holders : TRUE
                res == RedeemOutcome(u) IN
            IF res = "ok"
            THEN /\ users' = [users EXCEPT ![u] = Accepted(users[u])]
                 /\ resp' = Response("redeem", 200, "")
            ELSE /\ users' = users
                 /\ resp' = Response("redeem",
                                     IF res = "crash" THEN 500 ELSE 400,
                                     res)
    /\ UNCHANGED <<nextId, memberships, property_group, now, nextToken,
                   outbox>>
    /\ UNCHANGED <<apps, app_memberships, pending>>

\* An issue that keeps a token the row already stores
Issued_KeepToken(row, tok) ==
    [row EXCEPT !.invitation_token =
                    IF row.invitation_token = 0 THEN tok
                    ELSE row.invitation_token,
                !.invitation_sent = TRUE,
                !.invitation_sent_at = now]

\* An issue that stamps the send time on the first send only
Issued_StaleSentAt(row, tok) ==
    [row EXCEPT !.invitation_token = tok,
                !.invitation_sent = TRUE,
                !.invitation_sent_at =
                    IF row.invitation_sent_at = NoTime THEN now
                    ELSE row.invitation_sent_at]

\* InvitationEmail.get_context_data: a fresh token replaces the stored one
Issued(row, tok) ==
    [row EXCEPT !.invitation_token = tok,
                !.invitation_sent = TRUE,
                !.invitation_sent_at = now]

\* InvitationEmail.send: store the token, then dispatch the email
SendInvitation(u) ==
    /\ users' = [users EXCEPT ![u] = Issued(users[u], nextToken)]
    /\ outbox' = outbox \cup {[to |-> u, token |-> nextToken, at |-> now]}
    /\ nextToken' = nextToken + 1

\* ResendInvitationView.post
Resend(a, t) ==
    /\ a \in Existing
    /\ nextToken <= MaxTokens
    /\ IF t \notin Existing
       THEN /\ resp' = Response("resend", 404, "not_found")
            /\ UNCHANGED <<users, outbox, nextToken>>
       ELSE IF t \notin get_managed_users(a)
       THEN /\ resp' = Response("resend", 403, "forbidden")
            /\ UNCHANGED <<users, outbox, nextToken>>
       ELSE IF users[t].invitation_accepted
       THEN /\ resp' = Response("resend", 400, "already_accepted")
            /\ UNCHANGED <<users, outbox, nextToken>>
       ELSE /\ SendInvitation(t)
            /\ resp' = Response("resend", 200, "")
    /\ UNCHANGED <<nextId, memberships, property_group, now>>
    /\ UNCHANGED <<apps, app_memberships, pending>>

\* --------------------------------------------------------- user management
\* UserManagementCreateSerializer.create: the row, its flags and its
\* membership.  No invitation is issued here.
CreatedRow(role) ==
    [create_user EXCEPT
        !.is_superuser = (role = SUPER_USER),
        !.is_staff = (role \in {SUPER_USER, PROPERTY_ADMIN, GROUP_ADMIN})]

\* UserManagementViewSet.create (CreateModelMixin) with
\* UserManagementCreateSerializer.  A supplied is_active reaches
\* _create_user twice and the constructor call raises.
Create(a, role, property_id, property_group_id, is_active_in) ==
    /\ a \in Existing
    /\ nextId <= MaxUsers
    /\ LET v == CreateValidate(a, role, property_id, property_group_id) IN
       IF ~has_permission(a)
       THEN /\ resp' = Response("create", 403, "forbidden")
            /\ UNCHANGED <<users, nextId, memberships>>
       ELSE IF v # "ok"
       THEN /\ resp' = Response("create", 400, v)
            /\ UNCHANGED <<users, nextId, memberships>>
       ELSE IF is_active_in # Absent
       THEN /\ resp' = Response("create", 500, "crash")
            /\ UNCHANGED <<users, nextId, memberships>>
       ELSE /\ users' = users @@ (nextId :> CreatedRow(role))
            /\ memberships' =
                  IF role = SUPER_USER THEN memberships
                  ELSE memberships \cup
                       {Membership(nextId, role, property_id,
                                   property_group_id)}
            /\ nextId' = nextId + 1
            /\ resp' = Response("create", 201, "")
    /\ UNCHANGED <<property_group, now, nextToken, outbox>>
    /\ UNCHANGED <<apps, app_memberships, pending>>

\* UserManagementUpdateSerializer.update, the user row
UpdatedRow(row, role, is_active_in) ==
    LET r1 == IF is_active_in = Absent THEN row
              ELSE [row EXCEPT !.is_active = (is_active_in = "true")]
    IN  IF role = NoRole THEN r1
        ELSE IF role = SUPER_USER
        THEN [r1 EXCEPT !.is_superuser = TRUE, !.is_staff = TRUE]
        ELSE [r1 EXCEPT !.is_superuser = FALSE,
                        !.is_staff = (role \in {PROPERTY_ADMIN, GROUP_ADMIN})]

\* A role update that leaves the memberships of a promoted user in place
UpdatedMemberships_KeepOnPromotion(t, role, property_id, property_group_id) ==
    IF role = NoRole \/ role = SUPER_USER THEN memberships
    ELSE (memberships \ MembershipsOf(t)) \cup
         {Membership(t, role, property_id, property_group_id)}

\* UserManagementUpdateSerializer.update, the membership table
UpdatedMemberships(t, role, property_id, property_group_id) ==
    IF role = NoRole THEN memberships
    ELSE IF role = SUPER_USER THEN memberships \ MembershipsOf(t)
    ELSE (memberships \ MembershipsOf(t)) \cup
         {Membership(t, role, property_id, property_group_id)}

\* UserManagementViewSet.update / partial_update (UpdateModelMixin) with
\* UserManagementUpdateSerializer
Update(a, t, role, property_id, property_group_id, is_active_in) ==
    /\ a \in Existing
    /\ LET d == ObjectDenied(a, t)
           v == UpdateValidate(a, role, property_id, property_group_id) IN
       IF d # "ok"
       THEN /\ resp' = Response("update", DeniedStatus(d), d)
            /\ UNCHANGED <<users, memberships>>
       ELSE IF v # "ok"
       THEN /\ resp' = Response("update", 400, v)
            /\ UNCHANGED <<users, memberships>>
       ELSE /\ users' = [users EXCEPT
                            ![t] = UpdatedRow(users[t], role, is_active_in)]
            /\ memberships' = UpdatedMemberships(t, role, property_id,
                                                 property_group_id)
            /\ resp' = Response("update", 200, "")
    /\ UNCHANGED <<nextId, property_group, now, nextToken, outbox>>
    /\ UNCHANGED <<apps, app_memberships, pending>>

\* An activation that leaves the invitation flag alone
Activated_FlagOnly(row) == [row EXCEPT !.is_active = TRUE]

\* UserManagementViewSet.activate, the row written for an inactive user
Activated(row) ==
    [row EXCEPT !.invitation_accepted = TRUE, !.is_active = TRUE]

\* UserManagementViewSet.activate
Activate(a, t) ==
    /\ a \in Existing
    /\ LET d == ObjectDenied(a, t) IN
       IF d # "ok"
       THEN /\ resp' = Response("activate", DeniedStatus(d), d)
            /\ users' = users
       ELSE IF users[t].is_active
       THEN /\ resp' = Response("activate", 400, "already_active")
            /\ users' = users
       ELSE IF ~users[t].invitation_accepted /\ ~users[a].is_superuser
       THEN /\ resp' = Response("activate", 400, "must_accept")
            /\ users' = users
       ELSE /\ users' = [users EXCEPT ![t] = Activated(users[t])]
            /\ resp' = Response("activate", 200, "")
    /\ UNCHANGED <<nextId, memberships, property_group, now, nextToken,
                   outbox>>
    /\ UNCHANGED <<apps, app_memberships, pending>>

\* UserManagementViewSet.deactivate
Deactivate(a, t) ==
    /\ a \in Existing
    /\ LET d == ObjectDenied(a, t) IN
       IF d # "ok"
       THEN /\ resp' = Response("deactivate", DeniedStatus(d), d)
            /\ users' = users
       ELSE IF t = a
       THEN /\ resp' = Response("deactivate", 400, "self")
            /\ users' = users
       ELSE IF ~users[t].is_active
       THEN /\ resp' = Response("deactivate", 400, "already_inactive")
            /\ users' = users
       ELSE /\ users' = [users EXCEPT ![t].is_active = FALSE]
            /\ resp' = Response("deactivate", 200, "")
    /\ UNCHANGED <<nextId, memberships, property_group, now, nextToken,
                   outbox>>
    /\ UNCHANGED <<apps, app_memberships, pending>>

\* UserManagementViewSet.destroy with perform_destroy: a hard delete for
\* superusers (memberships cascade), a deactivation for everybody else.
Destroy(a, t) ==
    /\ a \in Existing
    /\ LET d == ObjectDenied(a, t) IN
       IF d # "ok"
       THEN /\ resp' = Response("destroy", DeniedStatus(d), d)
            /\ UNCHANGED <<users, memberships>>
       ELSE IF users[a].is_superuser
       THEN /\ users' = [u \in Existing \ {t} |-> users[u]]
            /\ memberships' = memberships \ MembershipsOf(t)
            /\ resp' = Response("destroy", 204, "")
       ELSE /\ users' = [users EXCEPT ![t].is_active = FALSE]
            /\ memberships' = memberships
            /\ resp' = Response("destroy", 204, "")
    /\ UNCHANGED <<nextId, property_group, now, nextToken, outbox>>
    /\ UNCHANGED <<apps, app_memberships, pending>>

\* UserManagementViewSet.retrieve: get_object decides
Retrieve(a, t) ==
    /\ a \in Existing
    /\ LET d == ObjectDenied(a, t) IN
       resp' = Answer("retrieve",
                      IF d = "ok" THEN 200 ELSE DeniedStatus(d), a, t)
    /\ UNCHANGED <<users, nextId, memberships, property_group, now,
                   nextToken, outbox>>
    /\ UNCHANGED <<apps, app_memberships, pending>>

\* UserManagementViewSet.list: the rows of get_queryset
List(a) ==
    /\ a \in Existing
    /\ resp' = Answer("list", IF has_permission(a) THEN 200 ELSE 403, a, 0)
    /\ UNCHANGED <<users, nextId, memberships, property_group, now,
                   nextToken, outbox>>
    /\ UNCHANGED <<apps, app_memberships, pending>>

\* UserManagementViewSet.my_manageable_scopes
my_manageable_scopes(a) ==
    /\ a \in Existing
    /\ resp' = Answer("my_manageable_scopes",
                      IF has_permission(a) THEN 200 ELSE 403, a, 0)
    /\ UNCHANGED <<users, nextId, memberships, property_group, now,
                   nextToken, outbox>>
    /\ UNCHANGED <<apps, app_memberships, pending>>

\* PropertyViewSet.list: open to every authenticated user
PropertyList(a) ==
    /\ a \in Existing
    /\ resp' = Answer("property_list", 200, a, 0)
    /\ UNCHANGED <<users, nextId, memberships, property_group, now,
                   nextToken, outbox>>
    /\ UNCHANGED <<apps, app_memberships, pending>>

\* PropertyViewSet.create with PropertySerializer: a new row in group g
PropertyCreate(a, p, g) ==
    /\ a \in Existing
    /\ p \notin PropertyIds
    /\ property_group' = [property_group EXCEPT ![p] = g]
    /\ resp' = Answer("property_create", 201, a, p)
    /\ UNCHANGED <<users, nextId, memberships, now, nextToken, outbox>>
    /\ UNCHANGED <<apps, app_memberships, pending>>

\* PropertyViewSet.update with PropertySerializer: property_group_id
\* moves the row to group g; the row is looked up in get_queryset.
PropertyUpdate(a, p, g) ==
    /\ a \in Existing
    /\ IF p \notin PropertyViewSet_get_queryset(a)
       THEN /\ resp' = Answer("property_update", 404, a, p)
            /\ property_group' = property_group
       ELSE /\ property_group' = [property_group EXCEPT ![p] = g]
            /\ resp' = Answer("property_update", 200, a, p)
    /\ UNCHANGED <<users, nextId, memberships, now, nextToken, outbox>>
    /\ UNCHANGED <<apps, app_memberships, pending>>

\* PropertyViewSet.destroy: the memberships on the row go with it
\* (on_delete CASCADE)
PropertyDestroy(a, p) ==
    /\ a \in Existing
    /\ IF p \notin PropertyViewSet_get_queryset(a)
       THEN /\ resp' = Answer("property_destroy", 404, a, p)
            /\ UNCHANGED <<property_group, memberships>>
       ELSE /\ property_group' = [property_group EXCEPT ![p] = 0]
            /\ memberships' = {m \in memberships : m.property # p}
            /\ resp' = Answer("property_destroy", 204, a, p)
    /\ UNCHANGED <<users, nextId, now, nextToken, outbox>>
    /\ UNCHANGED <<apps, app_memberships, pending>>

\* The wall clock between two requests
Tick(d) ==
    /\ now + d <= MaxTime
    /\ now' = now + d
    /\ resp' = Response("tick", 0, "")
    /\ UNCHANGED <<users, nextId, memberships, property_group, nextToken,
                   outbox>>
    /\ UNCHANGED <<apps, app_memberships, pending>>

\* ------------------------------------------------------- the state machine
\* The detail routes and resend address the row under observation; every
\* existing user may be the actor.
TargetIds == {3}

\* Request bodies.  Requests name property 1 and group 1 (property 1
\* lies in group 1), or leave the scope out.
Body(role, property_id, property_group_id, is_active) ==
    [role |-> role, property_id |-> property_id,
     property_group_id |-> property_group_id, is_active |-> is_active]

\* Every role with its proper scope, plus bodies the validation must
\* reject: a tenant without scope, a tenant with both scopes, a group
\* admin on a property, a property admin on a group, a superuser with a
\* group.
RoleBodies ==
    {Body(SUPER_USER, 0, 0, Absent), Body(GROUP_ADMIN, 0, 1, Absent),
     Body(PROPERTY_ADMIN, 1, 0, Absent), Body(TENANT, 1, 0, Absent),
     Body(TENANT, 0, 0, Absent), Body(TENANT, 1, 1, Absent),
     Body(GROUP_ADMIN, 1, 0, Absent), Body(SUPER_USER, 0, 1, Absent),
     Body(PROPERTY_ADMIN, 0, 1, Absent)}

\* Creation requests: the same without the property admin, plus one body
\* that supplies is_active.
CreateBodies ==
    (RoleBodies \ {Body(PROPERTY_ADMIN, 1, 0, Absent)})
    \cup {Body(TENANT, 1, 0, "true")}

UpdateBodies ==
    RoleBodies \cup {Body(NoRole, 0, 0, "true"), Body(NoRole, 0, 0, "false"),
                     Body(NoRole, 1, 0, Absent)}

\* The database after migration and createsuperuser: one superuser row,
\* the two properties each in its own group, nothing sent.
Init ==
    /\ users = (1 :> create_superuser)
    /\ nextId = 2
    /\ memberships = {}
    /\ property_group = [p \in Properties |-> p]
    /\ now = 0
    /\ nextToken = 1
    /\ outbox = {}
    /\ resp = Response("init", 0, "")
    /\ apps = [i \in AppIds |-> "missing"]
    /\ app_memberships = {}
    /\ pending = [r \in ProcIds |-> Idle]

Next ==
    \/ \E d \in TickSteps : Tick(d)
    \/ \E tok \in TokenIds : Redeem(tok)
    \/ \E a \in UserIds, t \in TargetIds : Resend(a, t)
    \/ \E a \in UserIds, b \in CreateBodies :
          Create(a, b.role, b.property_id, b.property_group_id, b.is_active)
    \/ \E a \in UserIds, t \in TargetIds, b \in UpdateBodies :
          Update(a, t, b.role, b.property_id, b.property_group_id,
                 b.is_active)
    \/ \E a \in UserIds, t \in TargetIds : Activate(a, t)
    \/ \E a \in UserIds, t \in TargetIds : Deactivate(a, t)
    \/ \E a \in UserIds, t \in TargetIds : Destroy(a, t)

Spec == Init /\ [][Next]_vars

\* ------------------------------------ the scope and permission functions
\* The functions of the scope resolver and of the permission decider read
\* two user rows, their memberships and the tenancy graph.  ScopeSpec
\* draws these inputs from bounded sets and applies the functions through
\* the requests that call them.
ScopeUserIds == {1, 2}

\* Membership rows of the shapes the serializers write
ApiMemberships(u) ==
    {Membership(u, GROUP_ADMIN, 0, g) : g \in Groups}
    \cup {Membership(u, r, p, 0) :
            r \in {PROPERTY_ADMIN, TENANT}, p \in Properties}

\* Any tenancy graph, any membership table of at most MaxMemberships rows
\* on existing properties, either user a superuser or not; is_staff as
\* the serializers set it.
ScopeInit ==
    /\ property_group \in [Properties -> {0} \cup Groups]
    /\ memberships \in
          {M \in SUBSET UNION {ApiMemberships(u) : u \in ScopeUserIds} :
             /\ Cardinality(M) <= MaxMemberships
             /\ \A m \in M : m.property # 0 => m.property \in PropertyIds}
    /\ users \in
          {[u \in ScopeUserIds |->
              NewUser(su[u] \/ \E m \in MembershipsOf(u) :
                                  m.role \in {PROPERTY_ADMIN, GROUP_ADMIN},
                      su[u])] : su \in [ScopeUserIds -> BOOLEAN]}
    /\ nextId = 3
    /\ now = 0
    /\ nextToken = 1
    /\ outbox = {}
    /\ resp = Response("init", 0, "")
    /\ apps = [i \in AppIds |-> "missing"]
    /\ app_memberships = {}
    /\ pending = [r \in ProcIds |-> Idle]

ScopeNext ==
    \/ \E a \in ScopeUserIds, t \in ScopeUserIds : Retrieve(a, t)
    \/ \E a \in ScopeUserIds : List(a)
    \/ \E a \in ScopeUserIds : my_manageable_scopes(a)
    \/ \E a \in ScopeUserIds : PropertyList(a)
    \/ \E a \in ScopeUserIds, p \in Properties, g \in Groups :
          PropertyCreate(a, p, g)
    \/ \E a \in ScopeUserIds, p \in Properties, g \in Groups :
          PropertyUpdate(a, p, g)
    \/ \E a \in ScopeUserIds, p \in Properties : PropertyDestroy(a, p)

ScopeSpec == ScopeInit /\ [][ScopeNext]_vars

\* ------------------------------------------------------------ SSO claims
\* The rows of user u in the order a queryset iteration may return them
Orders(u) ==
    LET S == MembershipsOf(u) IN
    {s \in [1..Cardinality(S) -> S] :
        \A i, j \in 1..Cardinality(S) : i # j => s[i] # s[j]}

\* role_priority of both _get_user_role methods; a role it does not list
\* has priority 0
role_priority(role) ==
    IF role = GROUP_ADMIN THEN 3
    ELSE IF role = PROPERTY_ADMIN THEN 2
    ELSE IF role = TENANT THEN 1
    ELSE 0

\* A scan that keeps the role of the row it saw last
RECURSIVE highest_role_LastSeen(_, _, _, _)
highest_role_LastSeen(order, i, highest_role, highest_priority) ==
    IF i > Len(order) THEN highest_role
    ELSE highest_role_LastSeen(order, i + 1, order[i].role,
                               role_priority(order[i].role))

\* The loop of CampaignPlannerTokenObtainPairSerializer._get_user_role from
\* row i on: a row replaces the role kept so far when its priority is
\* strictly higher
RECURSIVE highest_role(_, _, _, _)
highest_role(order, i, highest, highest_priority) ==
    IF i > Len(order) THEN highest
    ELSE LET priority == role_priority(order[i].role) IN
         IF priority > highest_priority
         THEN highest_role(order, i + 1, order[i].role, priority)
         ELSE highest_role(order, i + 1, highest, highest_priority)

\* CampaignPlannerTokenObtainPairSerializer._get_user_role; NoRole is None
get_user_role(u, order) ==
    IF users[u].is_superuser THEN SUPER_USER
    ELSE IF Len(order) = 0 THEN NoRole
    ELSE highest_role(order, 1, NoRole, 0)

\* The loop of TokenIntrospectionView._get_user_role from row i on
RECURSIVE introspect_highest_role(_, _, _, _)
introspect_highest_role(order, i, highest, highest_priority) ==
    IF i > Len(order) THEN highest
    ELSE LET priority == role_priority(order[i].role) IN
         IF priority > highest_priority
         THEN introspect_highest_role(order, i + 1, order[i].role, priority)
         ELSE introspect_highest_role(order, i + 1, highest,
                                      highest_priority)

\* TokenIntrospectionView._get_user_role
introspect_get_user_role(u, order) ==
    IF users[u].is_superuser THEN SUPER_USER
    ELSE IF Len(order) = 0 THEN NoRole
    ELSE introspect_highest_role(order, 1, NoRole, 0)

\* One entry of the membership list: the role, the property when the row
\* has one (then with the property's own group), else the group
membership_data(m) ==
    [role |-> m.role,
     property_id |-> m.property,
     property_group_id |->
         IF m.property # 0 THEN property_group[m.property]
         ELSE m.property_group]

\* The single entry of a superuser: role super_user, scope global
GlobalScope == [role |-> SUPER_USER, property_id |-> 0, property_group_id |-> 0]

\* CampaignPlannerTokenObtainPairSerializer._get_user_memberships
get_user_memberships(u, order) ==
    IF users[u].is_superuser THEN <<GlobalScope>>
    ELSE [i \in 1..Len(order) |-> membership_data(order[i])]

\* TokenIntrospectionView._get_user_memberships
introspect_get_user_memberships(u, order) ==
    IF users[u].is_superuser THEN <<GlobalScope>>
    ELSE [i \in 1..Len(order) |-> membership_data(order[i])]

\* CustomUser.has_access_to_app
has_access_to_app(u, app) ==
    users[u].is_superuser \/ <<u, app>> \in app_memberships

\* The App row a token request names: by id when an id is given, else by
\* slug (app i has slug i); 0 when no active row matches, -1 when the
\* request names neither
ResolveApp(app_id, app_slug) ==
    IF app_id # 0
    THEN IF app_id \in AppIds /\ apps[app_id] = "active" THEN app_id ELSE 0
    ELSE IF app_slug # 0
    THEN IF app_slug \in AppIds /\ apps[app_slug] = "active"
         THEN app_slug ELSE 0
    ELSE -1

\* What a token or introspection request returned: the request it answers
\* and the claims it carries (NoClaims when it carries none)
NoClaims == [role |-> NoRole, memberships |-> <<>>, app_id |-> 0]

TokenAnswer(op, status, actor, app_id, app_slug, claims) ==
    [op |-> op, status |-> status, err |-> "", actor |-> actor,
     app_id |-> app_id, app_slug |-> app_slug, claims |-> claims]

\* The classmethod get_token(cls, user, app=None): the claims of a token
build_claims(u, order, app) ==
    [role |-> get_user_role(u, order),
     memberships |-> get_user_memberships(u, order),
     app_id |-> app]

\* The name get_token of the serializer class: the class body defines the
\* classmethod first and the instance method get_token(self, user) after
\* it, so the name is bound to the instance method.  Its body calls
\* self.__class__.get_token(user, app=app), which is the same function
\* called with a keyword it does not take: the call raises TypeError.
get_token(u, order, app) == "TypeError"

\* CustomTokenObtainPairView.post with
\* CampaignPlannerTokenObtainPairSerializer.validate.  The parent's
\* validate authenticates (401 for wrong credentials or an inactive
\* account) and builds the token pair with self.get_token(self.user)
\* before the lines that resolve the app run.
ObtainToken(u, password_ok, app_id, app_slug) ==
    /\ u \in Existing
    /\ \E order \in Orders(u) :
       LET app == ResolveApp(app_id, app_slug) IN
       resp' =
          IF ~password_ok \/ ~users[u].is_active
          THEN TokenAnswer("obtain_token", 401, u, app_id, app_slug,
                           NoClaims)
          ELSE IF get_token(u, order, 0) = "TypeError"
          THEN TokenAnswer("obtain_token", 500, u, app_id, app_slug,
                           NoClaims)
          ELSE IF app <= 0 \/ ~has_access_to_app(u, app)
          THEN TokenAnswer("obtain_token", 400, u, app_id, app_slug,
                           NoClaims)
          ELSE TokenAnswer("obtain_token", 200, u, app_id, app_slug,
                           build_claims(u, order, 0))
    /\ UNCHANGED <<users, nextId, memberships, property_group, now,
                   nextToken, outbox>>
    /\ UNCHANGED <<apps, app_memberships, pending>>

\* TokenIntrospectionView.get for the bearer u of a token whose app_id
\* claim is token_app (0 when the token has none): role and memberships
\* are computed from the database, the app is looked up by id
Introspect(u, token_app) ==
    /\ u \in Existing
    /\ \E order \in Orders(u) :
       resp' = TokenAnswer("introspect", 200, u, token_app, 0,
                  [role |-> introspect_get_user_role(u, order),
                   memberships |-> introspect_get_user_memberships(u, order),
                   app_id |-> IF token_app \in AppIds
                                 /\ apps[token_app] # "missing"
                              THEN token_app ELSE 0])
    /\ UNCHANGED <<users, nextId, memberships, property_group, now,
                   nextToken, outbox>>
    /\ UNCHANGED <<apps, app_memberships, pending>>

\* The rows user 1 may hold in the SSO runs: one of each role
SsoRows ==
    {Membership(1, GROUP_ADMIN, 0, 1), Membership(1, PROPERTY_ADMIN, 1, 0),
     Membership(1, TENANT, 2, 0)}

\* User 1 with any flags, any of the rows and any app membership; user 2 an
\* active tenant of property 1 without app membership; any App table.
SsoInit ==
    /\ property_group = [p \in Properties |-> p]
    /\ memberships \in {M \cup {Membership(2, TENANT, 1, 0)} :
                           M \in SUBSET SsoRows}
    /\ users \in
          {(1 :> [NewUser(su \/ \E m \in MembershipsOf(1) :
                                   m.role \in {PROPERTY_ADMIN, GROUP_ADMIN},
                          su) EXCEPT !.is_active = act])
           @@ (2 :> [create_user EXCEPT !.is_active = TRUE]) :
             su \in BOOLEAN, act \in BOOLEAN}
    /\ apps \in [AppIds -> {"missing", "inactive", "active"}]
    /\ app_memberships \in
          SUBSET {<<1, i>> : i \in {j \in AppIds : apps[j] # "missing"}}
    /\ nextId = 3
    /\ now = 0
    /\ nextToken = 1
    /\ outbox = {}
    /\ resp = Response("init", 0, "")
    /\ pending = [r \in ProcIds |-> Idle]

SsoNext ==
    \/ \E u \in ScopeUserIds, password_ok \in BOOLEAN,
          app_id \in {0} \cup AppIds, app_slug \in {0, 1} :
          ObtainToken(u, password_ok, app_id, app_slug)
    \/ \E u \in ScopeUserIds, token_app \in {0} \cup AppIds :
          Introspect(u, token_app)

SsoSpec == SsoInit /\ [][SsoNext]_vars

\* ------------------------------------------------- assignments by an admin
\* Requests with every role, or none, and every combination of property
\* id and group id, absent included
AssignBodies ==
    {Body(role, p, g, Absent) :
        role \in RoleChoices \cup {NoRole},
        p \in {0} \cup Properties, g \in {0} \cup Groups}

\* User 1 is an admin or tenant with one or two memberships and no
\* superuser flag, user 2 holds any one membership; each property lies in
\* its own group.
AssignInit ==
    /\ property_group = [p \in Properties |-> p]
    /\ memberships \in
          {M \cup {m} :
             M \in {X \in SUBSET ApiMemberships(1) :
                      Cardinality(X) \in 1..MaxMemberships},
             m \in ApiMemberships(2)}
    /\ users = [u \in ScopeUserIds |->
                  NewUser(\E m \in MembershipsOf(u) :
                             m.role \in {PROPERTY_ADMIN, GROUP_ADMIN},
                          FALSE)]
    /\ nextId = 3
    /\ now = 0
    /\ nextToken = 1
    /\ outbox = {}
    /\ resp = Response("init", 0, "")
    /\ apps = [i \in AppIds |-> "missing"]
    /\ app_memberships = {}
    /\ pending = [r \in ProcIds |-> Idle]

\* User 1 creates users and updates user 2
AssignNext ==
    \/ \E b \in AssignBodies :
          Create(1, b.role, b.property_id, b.property_group_id, b.is_active)
    \/ \E b \in AssignBodies :
          Update(1, 2, b.role, b.property_id, b.property_group_id,
                 b.is_active)

AssignSpec == AssignInit /\ [][AssignNext]_vars

\* ------------------------------------------------------ concurrent requests
\* Each worker serves one request at a time.  A handler reads the user row
\* into a model instance, decides on that copy, and instance.save() then
\* writes every field of the copy back.  Nothing in the handlers opens a
\* transaction or locks the row, so other workers run between the read
\* and the write.
Free(r) == pending[r].pc \in {"idle", "done"}

\* AcceptInvitationView.get up to the checks: the lookup by token, the
\* expiry test and the already-accepted test on the row just read
RedeemRead(r, tok) ==
    /\ Free(r)
    /\ LET holders == Holders(tok) IN
       IF holders = {}
       THEN /\ resp' = Response("redeem", 400, "invalid_token")
            /\ pending' = [pending EXCEPT ![r] = Done("redeem", 400)]
       ELSE IF Cardinality(holders) > 1
       THEN /\ resp' = Response("redeem", 500, "crash")
            /\ pending' = [pending EXCEPT ![r] = Done("redeem", 500)]
       ELSE LET u == CHOOSE h \in holders : TRUE
                res == RedeemOutcome(u) IN
            IF res = "ok"
            THEN /\ resp' = resp
                 /\ pending' = [pending EXCEPT
                                  ![r] = Job("redeem", "write", 0, u,
                                             users[u])]
            ELSE /\ resp' = Response("redeem",
                                     IF res = "crash" THEN 500 ELSE 400,
                                     res)
                 /\ pending' = [pending EXCEPT
                                  ![r] = Done("redeem",
                                              IF res = "crash" THEN 500
                                              ELSE 400)]
    /\ UNCHANGED <<users, nextId, memberships, property_group, now,
                   nextToken, outbox, apps, app_memberships>>

\* AcceptInvitationView.get from the assignments on: user.save() and the
\* success answer
RedeemWrite(r) ==
    /\ pending[r].op = "redeem"
    /\ pending[r].pc = "write"
    /\ users' = [users EXCEPT
                    ![pending[r].target] = Accepted(pending[r].row)]
    /\ resp' = Response("redeem", 200, "")
    /\ pending' = [pending EXCEPT ![r] = Done("redeem", 200)]
    /\ UNCHANGED <<nextId, memberships, property_group, now, nextToken,
                   outbox, apps, app_memberships>>

\* The clock between two steps, which leaves the workers where they are
ConcTick(d) ==
    /\ now + d <= MaxTime
    /\ now' = now + d
    /\ resp' = Response("tick", 0, "")
    /\ UNCHANGED <<users, nextId, memberships, property_group, nextToken,
                   outbox, apps, app_memberships, pending>>

\* The user the concurrent requests are about
ConcTarget == 2

\* A superuser and a tenant of property 1 who was sent token 1 at time 0
\* and may or may not have accepted it or been activated by hand
RaceInit ==
    /\ now = 0
    /\ property_group = [p \in Properties |-> p]
    /\ memberships = {Membership(ConcTarget, TENANT, 1, 0)}
    /\ users \in
          {(1 :> [create_superuser EXCEPT !.is_active = TRUE])
           @@ (ConcTarget :>
                 [Issued(create_user, 1) EXCEPT
                     !.is_active = act,
                     !.invitation_accepted = acc,
                     !.invitation_accepted_at = IF acc THEN 0 ELSE NoTime]) :
             act \in BOOLEAN, acc \in BOOLEAN}
    /\ nextId = 3
    /\ nextToken = 2
    /\ outbox = {[to |-> ConcTarget, token |-> 1, at |-> 0]}
    /\ resp = Response("init", 0, "")
    /\ apps = [i \in AppIds |-> "missing"]
    /\ app_memberships = {}
    /\ pending = [r \in ProcIds |-> Idle]

\* Redeem requests only, on any worker, for the stored token and for one
\* that nobody holds
RedeemRaceNext ==
    \/ \E d \in TickSteps : ConcTick(d)
    \/ \E r \in ProcIds, tok \in TokenIds : RedeemRead(r, tok)
    \/ \E r \in ProcIds : RedeemWrite(r)

RedeemRaceSpec == RaceInit /\ [][RedeemRaceNext]_vars

\* A finished request: the answer, and the worker free again
Finish(r, op, status, err) ==
    /\ resp' = Response(op, status, err)
    /\ pending' = [pending EXCEPT ![r] = Done(op, status)]

\* A request that has read the row of t and goes on to step pc
Hold(r, job) ==
    /\ resp' = resp
    /\ pending' = [pending EXCEPT ![r] = job]

\* UserManagementViewSet.deactivate up to the checks: get_object, the self
\* test and the is_active test on the instance just read
DeactivateRead(r, a, t) ==
    /\ Free(r)
    /\ a \in Existing
    /\ LET d == ObjectDenied(a, t) IN
       IF d # "ok" THEN Finish(r, "deactivate", DeniedStatus(d), d)
       ELSE IF t = a THEN Finish(r, "deactivate", 400, "self")
       ELSE IF ~users[t].is_active
       THEN Finish(r, "deactivate", 400, "already_inactive")
       ELSE Hold(r, Job("deactivate", "write", a, t, users[t]))
    /\ UNCHANGED <<users, nextId, memberships, property_group, now,
                   nextToken, outbox, apps, app_memberships>>

\* UserManagementViewSet.deactivate: user.is_active = False; user.save()
DeactivateWrite(r) ==
    /\ pending[r].op = "deactivate"
    /\ pending[r].pc = "write"
    /\ users' = [users EXCEPT
                    ![pending[r].target] =
                        [pending[r].row EXCEPT !.is_active = FALSE]]
    /\ Finish(r, "deactivate", 200, "")
    /\ UNCHANGED <<nextId, memberships, property_group, now, nextToken,
                   outbox, apps, app_memberships>>

\* UserManagementViewSet.activate up to the checks
ActivateRead(r, a, t) ==
    /\ Free(r)
    /\ a \in Existing
    /\ LET d == ObjectDenied(a, t) IN
       IF d # "ok" THEN Finish(r, "activate", DeniedStatus(d), d)
       ELSE IF users[t].is_active
       THEN Finish(r, "activate", 400, "already_active")
       ELSE IF ~users[t].invitation_accepted /\ ~users[a].is_superuser
       THEN Finish(r, "activate", 400, "must_accept")
       ELSE Hold(r, Job("activate", "write", a, t, users[t]))
    /\ UNCHANGED <<users, nextId, memberships, property_group, now,
                   nextToken, outbox, apps, app_memberships>>

\* UserManagementViewSet.activate: the flags set on the instance, then
\* user.save()
ActivateWrite(r) ==
    /\ pending[r].op = "activate"
    /\ pending[r].pc = "write"
    /\ users' = [users EXCEPT
                    ![pending[r].target] = Activated(pending[r].row)]
    /\ Finish(r, "activate", 200, "")
    /\ UNCHANGED <<nextId, memberships, property_group, now, nextToken,
                   outbox, apps, app_memberships>>

\* ResendInvitationView.post up to the checks: the lookup of the target,
\* the get_managed_users test and the already-accepted test
ResendRead(r, a, t) ==
    /\ Free(r)
    /\ a \in Existing
    /\ nextToken <= MaxTokens
    /\ IF t \notin Existing THEN Finish(r, "resend", 404, "not_found")
       ELSE IF t \notin get_managed_users(a)
       THEN Finish(r, "resend", 403, "forbidden")
       ELSE IF users[t].invitation_accepted
       THEN Finish(r, "resend", 400, "already_accepted")
       ELSE Hold(r, Job("resend", "write", a, t, users[t]))
    /\ UNCHANGED <<users, nextId, memberships, property_group, now,
                   nextToken, outbox, apps, app_memberships>>

\* InvitationEmail.send: get_context_data stores the new token with
\* self.user.save() on the instance the view has read, then the email goes
\* out
ResendWrite(r) ==
    /\ pending[r].op = "resend"
    /\ pending[r].pc = "write"
    /\ nextToken <= MaxTokens
    /\ users' = [users EXCEPT
                    ![pending[r].target] = Issued(pending[r].row, nextToken)]
    /\ outbox' = outbox \cup {[to |-> pending[r].target,
                               token |-> nextToken, at |-> now]}
    /\ nextToken' = nextToken + 1
    /\ Finish(r, "resend", 200, "")
    /\ UNCHANGED <<nextId, memberships, property_group, now, apps,
                   app_memberships>>

\* UserManagementViewSet.update up to serializer.is_valid(): get_object
\* reads the instance, validate checks the request
UpdateRead(r, a, t, role, property_id, property_group_id, is_active_in) ==
    /\ Free(r)
    /\ a \in Existing
    /\ LET d == ObjectDenied(a, t)
           v == UpdateValidate(a, role, property_id, property_group_id) IN
       IF d # "ok" THEN Finish(r, "update", DeniedStatus(d), d)
       ELSE IF v # "ok" THEN Finish(r, "update", 400, v)
       ELSE Hold(r, [Job("update",
                         IF role = NoRole THEN "save" ELSE "delete",
                         a, t, users[t]) EXCEPT
                       !.role = role, !.property_id = property_id,
                       !.property_group_id = property_group_id,
                       !.is_active = is_active_in,
                       !.before = MembershipsOf(t)])
    /\ UNCHANGED <<users, nextId, memberships, property_group, now,
                   nextToken, outbox, apps, app_memberships>>

\* UserManagementUpdateSerializer.update with a role:
\* instance.property_memberships.all().delete()
UpdateDelete(r) ==
    /\ pending[r].op = "update"
    /\ pending[r].pc = "delete"
    /\ memberships' = memberships \ MembershipsOf(pending[r].target)
    /\ Hold(r, [pending[r] EXCEPT
                  !.pc = IF pending[r].role = SUPER_USER THEN "save"
                         ELSE "membership"])
    /\ UNCHANGED <<users, nextId, property_group, now, nextToken, outbox,
                   apps, app_memberships>>

\* UserManagementUpdateSerializer.update with a role below super_user:
\* UserPropertyMembership.objects.create(**membership_data)
UpdateMembership(r) ==
    /\ pending[r].op = "update"
    /\ pending[r].pc = "membership"
    /\ memberships' = memberships \cup
          {Membership(pending[r].target, pending[r].role,
                      pending[r].property_id, pending[r].property_group_id)}
    /\ Hold(r, [pending[r] EXCEPT !.pc = "save"])
    /\ UNCHANGED <<users, nextId, property_group, now, nextToken, outbox,
                   apps, app_memberships>>

\* UserManagementUpdateSerializer.update: instance.save() with the fields
\* of the request set on the instance read by get_object
UpdateSave(r) ==
    /\ pending[r].op = "update"
    /\ pending[r].pc = "save"
    /\ users' = [users EXCEPT
                    ![pending[r].target] =
                        UpdatedRow(pending[r].row, pending[r].role,
                                   pending[r].is_active)]
    /\ Finish(r, "update", 200, "")
    /\ UNCHANGED <<nextId, memberships, property_group, now, nextToken,
                   outbox, apps, app_memberships>>

\* UserManagementViewSet.create up to serializer.is_valid()
CreateRead(r, a, role, property_id, property_group_id) ==
    /\ Free(r)
    /\ a \in Existing
    /\ nextId <= MaxUsers
    /\ LET v == CreateValidate(a, role, property_id, property_group_id) IN
       IF ~has_permission(a) THEN Finish(r, "create", 403, "forbidden")
       ELSE IF v # "ok" THEN Finish(r, "create", 400, v)
       ELSE Hold(r, [Job("create", "user", a, 0, create_user) EXCEPT
                       !.role = role, !.property_id = property_id,
                       !.property_group_id = property_group_id])
    /\ UNCHANGED <<users, nextId, memberships, property_group, now,
                   nextToken, outbox, apps, app_memberships>>

\* UserManagementCreateSerializer.create: CustomUser.objects.create_user
\* saves the new row, without the staff and superuser flags
CreateUser(r) ==
    /\ pending[r].op = "create"
    /\ pending[r].pc = "user"
    /\ nextId <= MaxUsers
    /\ users' = users @@ (nextId :> create_user)
    /\ nextId' = nextId + 1
    /\ Hold(r, [pending[r] EXCEPT !.pc = "flags", !.target = nextId])
    /\ UNCHANGED <<memberships, property_group, now, nextToken, outbox,
                   apps, app_memberships>>

\* UserManagementCreateSerializer.create: the flags are set on the
\* instance and user.save() stores them
CreateFlags(r) ==
    /\ pending[r].op = "create"
    /\ pending[r].pc = "flags"
    /\ users' = [users EXCEPT
                    ![pending[r].target] = CreatedRow(pending[r].role)]
    /\ IF pending[r].role = SUPER_USER
       THEN Finish(r, "create", 201, "")
       ELSE Hold(r, [pending[r] EXCEPT !.pc = "membership"])
    /\ UNCHANGED <<nextId, memberships, property_group, now, nextToken,
                   outbox, apps, app_memberships>>

\* UserManagementCreateSerializer.create:
\* UserPropertyMembership.objects.create(**membership_data)
CreateMembership(r) ==
    /\ pending[r].op = "create"
    /\ pending[r].pc = "membership"
    /\ memberships' = memberships \cup
          {Membership(pending[r].target, pending[r].role,
                      pending[r].property_id, pending[r].property_group_id)}
    /\ Finish(r, "create", 201, "")
    /\ UNCHANGED <<users, nextId, property_group, now, nextToken, outbox,
                   apps, app_memberships>>

\* Requests on the invited user that read and write the user row: redeem,
\* resend, and the superuser's activate, deactivate and is_active update
ConcNext ==
    \/ \E r \in ProcIds, tok \in TokenIds : RedeemRead(r, tok)
    \/ \E r \in ProcIds : RedeemWrite(r)
    \/ \E r \in ProcIds : DeactivateRead(r, 1, ConcTarget)
    \/ \E r \in ProcIds : DeactivateWrite(r)
    \/ \E r \in ProcIds : ActivateRead(r, 1, ConcTarget)
    \/ \E r \in ProcIds : ActivateWrite(r)
    \/ \E r \in ProcIds : ResendRead(r, 1, ConcTarget)
    \/ \E r \in ProcIds : ResendWrite(r)
    \/ \E r \in ProcIds, is_active_in \in {"true", "false"} :
          UpdateRead(r, 1, ConcTarget, NoRole, 0, 0, is_active_in)
    \/ \E r \in ProcIds : UpdateSave(r)

ConcSpec == RaceInit /\ [][ConcNext]_vars

\* Role changes and creations by the superuser
WriteBodies ==
    {Body(SUPER_USER, 0, 0, Absent), Body(TENANT, 1, 0, Absent)}

WriteNext ==
    \/ \E r \in ProcIds, b \in WriteBodies :
          UpdateRead(r, 1, ConcTarget, b.role, b.property_id,
                     b.property_group_id, b.is_active)
    \/ \E r \in ProcIds : UpdateDelete(r)
    \/ \E r \in ProcIds : UpdateMembership(r)
    \/ \E r \in ProcIds : UpdateSave(r)
    \/ \E r \in ProcIds, b \in WriteBodies :
          CreateRead(r, 1, b.role, b.property_id, b.property_group_id)
    \/ \E r \in ProcIds : CreateUser(r)
    \/ \E r \in ProcIds : CreateFlags(r)
    \/ \E r \in ProcIds : CreateMembership(r)

WriteSpec == RaceInit /\ [][WriteNext]_vars

\* ------------------------------------------------------------ properties
\* The user that holds a stored token
HoldsToken(u, tok) == u \in Existing /\ users[u].invitation_token = tok

\* A stored, unaccepted invitation that is at most ExpiryDays old
Redeemable(u) ==
    /\ users[u].invitation_token # 0
    /\ ~users[u].invitation_accepted
    /\ users[u].invitation_sent_at # NoTime
    /\ now <= users[u].invitation_sent_at + ExpiryDays

\* C1: acceptance is one-way, and every later redemption of the token of an
\* accepted user is rejected as "already accepted" without changing a field.
C1_AcceptanceOneWay ==
    [][/\ \A u \in Existing :
             (users[u].invitation_accepted /\ u \in DOMAIN users')
                => users'[u].invitation_accepted
       /\ \A tok \in TokenIds : \A u \in Existing :
             (resp'.op = "redeem" /\ HoldsToken(u, tok)
                                  /\ users[u].invitation_accepted
                                  /\ Redeem(tok))
                => /\ resp' = Response("redeem", 400, "already_accepted")
                   /\ users' = users]_vars

\* C2: redeeming the stored token of an unaccepted invitation sent at most
\* seven days ago returns 200 and sets invitation_accepted, is_active and
\* invitation_accepted_at = now on that user only; the token stays stored.
C2_RedeemSucceeds ==
    [][\A tok \in TokenIds : \A u \in Existing :
          (resp'.op = "redeem" /\ HoldsToken(u, tok) /\ Redeemable(u)
                               /\ Redeem(tok))
             => /\ resp' = Response("redeem", 200, "")
                /\ users' = [users EXCEPT
                               ![u].invitation_accepted = TRUE,
                               ![u].invitation_accepted_at = now,
                               ![u].is_active = TRUE]
                /\ users'[u].invitation_token = tok
                /\ memberships' = memberships]_vars

\* C2 witness: a redeem has just succeeded on an invitation still within
\* its seven days, and the token is still stored.
C2_Witness ==
    /\ resp = Response("redeem", 200, "")
    /\ \E u \in Existing :
          /\ users[u].invitation_accepted
          /\ users[u].is_active
          /\ users[u].invitation_accepted_at = now
          /\ users[u].invitation_token # 0
          /\ now = users[u].invitation_sent_at + ExpiryDays

\* C3: the redeem preconditions are decided in the order known token,
\* not already accepted, not expired: an accepted user's token yields
\* "already accepted" at any age, "expired" only for unaccepted ones.
C3_CheckOrder ==
    [][\A tok \in TokenIds : \A u \in Existing :
          (resp'.op = "redeem" /\ HoldsToken(u, tok) /\ Redeem(tok))
             => /\ users[u].invitation_accepted
                      => resp'.err = "already_accepted"
                /\ resp'.err = "expired"
                      => ~users[u].invitation_accepted]_vars

\* C4: redeeming an unaccepted invitation older than seven days returns
\* 400 "expired" and changes nothing; at seven days or less the
\* invitation is not expired.
C4_ExpiredRejected ==
    [][\A tok \in TokenIds : \A u \in Existing :
          (resp'.op = "redeem" /\ HoldsToken(u, tok)
                               /\ ~users[u].invitation_accepted
                               /\ users[u].invitation_sent_at # NoTime
                               /\ Redeem(tok))
             => IF now > users[u].invitation_sent_at + ExpiryDays
                THEN /\ resp' = Response("redeem", 400, "expired")
                     /\ users' = users
                     /\ outbox' = outbox
                ELSE resp'.err # "expired"]_vars

\* C4 witness: an expired redeem was just rejected, the overage is more
\* than a week, and every invitee is still inactive and unaccepted with
\* the token stored.
C4_Witness ==
    /\ resp = Response("redeem", 400, "expired")
    /\ \A u \in Existing :
          users[u].invitation_token # 0 => ~users[u].invitation_accepted
    /\ \E u \in Existing :
          /\ users[u].invitation_token # 0
          /\ ~users[u].is_active
          /\ now > users[u].invitation_sent_at + 2 * ExpiryDays

\* C5: no management write by a non-superuser turns an inactive user with
\* an unaccepted invitation active; every such attempt leaves the row as
\* it was.
C5_NonSuperuserCannotActivate ==
    [][\A a \in Existing : \A t \in Existing :
          (/\ resp'.op \in {"activate", "update"}
           /\ ~users[a].is_superuser
           /\ ~users[t].invitation_accepted
           /\ ~users[t].is_active
           /\ \/ Activate(a, t)
              \/ \E b \in UpdateBodies :
                    Update(a, t, b.role, b.property_id, b.property_group_id,
                           b.is_active))
             => /\ t \in DOMAIN users'
                /\ ~users'[t].is_active]_vars

\* C6: every non-superuser that is active has accepted its invitation.
C6_ActiveImpliesAccepted ==
    \A u \in Existing :
       (~users[u].is_superuser /\ users[u].is_active)
          => users[u].invitation_accepted

\* C7: a superuser activating an inactive user with an unaccepted
\* invitation stores is_active and invitation_accepted together; no
\* successful activation stores an active, unaccepted row.
C7_ManualOverrideConsistent ==
    [][\A a \in Existing : \A t \in Existing :
          (resp'.op = "activate" /\ Activate(a, t))
             => /\ (/\ users[a].is_superuser
                    /\ ~users[t].is_active
                    /\ ~users[t].invitation_accepted)
                      => /\ resp' = Response("activate", 200, "")
                         /\ users' = [users EXCEPT
                                        ![t].is_active = TRUE,
                                        ![t].invitation_accepted = TRUE]
                /\ resp'.status = 200
                      => /\ users'[t].is_active
                         /\ users'[t].invitation_accepted]_vars

\* C7 witness: an activation has just succeeded on an invitee that was
\* sent a token and never redeemed it (no acceptance time is recorded).
C7_Witness ==
    /\ resp = Response("activate", 200, "")
    /\ \E t \in Existing :
          /\ ~users[t].is_superuser
          /\ users[t].is_active
          /\ users[t].invitation_accepted
          /\ users[t].invitation_accepted_at = NoTime
          /\ users[t].invitation_token # 0

\* C8: a successful management create leaves the new user with
\* invitation_sent, a token and a send time, unaccepted and inactive, and
\* dispatches exactly one invitation email addressed to that user.
C8_CreateIssuesInvitation ==
    [][\A a \in Existing : \A b \in CreateBodies :
          (/\ resp'.op = "create"
           /\ resp'.status = 201
           /\ Create(a, b.role, b.property_id, b.property_group_id,
                     b.is_active))
             => /\ users'[nextId].invitation_sent
                /\ users'[nextId].invitation_token # 0
                /\ users'[nextId].invitation_sent_at # NoTime
                /\ ~users'[nextId].invitation_accepted
                /\ ~users'[nextId].is_active
                /\ Cardinality(outbox' \ outbox) = 1
                /\ \A e \in outbox' \ outbox : e.to = nextId]_vars

\* Tokens sent to u earlier that the row no longer stores
Superseded(u) ==
    {e.token : e \in {x \in outbox : x.to = u
                                     /\ x.token # users[u].invitation_token}}

\* C9: a resend stores a fresh token in place of the old one, no two rows
\* store the same token, and redeeming a token that was issued to a user
\* before its latest resend is rejected as unknown and changes nothing.
C9_SingleValidToken ==
    [][/\ \A a \in Existing : \A t \in Existing :
             (resp'.op = "resend" /\ resp'.status = 200 /\ Resend(a, t))
                => /\ users'[t].invitation_token \notin
                         {e.token : e \in outbox}
                   /\ [to |-> t, token |-> users'[t].invitation_token,
                       at |-> now] \in outbox'
                   /\ Superseded(t)' =
                         {e.token : e \in {x \in outbox : x.to = t}}
       /\ \A u \in Existing : \A tok \in Superseded(u) :
             /\ Holders(tok) = {}
             /\ (resp'.op = "redeem" /\ Redeem(tok))
                   => /\ resp' = Response("redeem", 400, "invalid_token")
                      /\ users' = users]_vars

\* C9 witness: every token ever issued went to one user, the row stores
\* the latest, and a redeem was just rejected as unknown.
C9_Witness ==
    /\ resp = Response("redeem", 400, "invalid_token")
    /\ \E u \in Existing :
          /\ users[u].invitation_token # 0
          /\ ~users[u].invitation_accepted
          /\ Superseded(u) # {}
          /\ \A tok \in TokenIds :
                tok = users[u].invitation_token \/ tok \in Superseded(u)

\* C10: an expired, unaccepted invitation stays expired with its token
\* stored until a successful resend; a resend stores a token whose seven
\* days start at the resend, and redeeming that token within them
\* activates the user.
C10_ResendOnlyRecovery ==
    [][/\ \A u \in Existing :
             (/\ Expired(u)
              /\ ~users[u].invitation_accepted
              /\ u \in DOMAIN users'
              /\ ~users'[u].invitation_accepted)
                => \/ /\ Expired(u)'
                      /\ users'[u].invitation_token
                            = users[u].invitation_token
                   \/ resp' = Response("resend", 200, "")
       /\ \A a \in Existing : \A t \in Existing :
             (resp'.op = "resend" /\ resp'.status = 200 /\ Resend(a, t))
                => /\ users'[t].invitation_sent_at = now
                   /\ users'[t].invitation_token = nextToken
                   /\ Redeemable(t)'
       /\ \A u \in Existing :
             (/\ resp'.op = "redeem"
              /\ Redeemable(u)
              /\ Superseded(u) # {}
              /\ Redeem(users[u].invitation_token))
                => /\ resp'.status = 200
                   /\ users'[u].is_active
                   /\ users'[u].invitation_accepted]_vars

\* C10 witness: a token re-issued after the first one had expired was
\* redeemed on the last of its seven days, and the user is active.
C10_Witness ==
    /\ resp = Response("redeem", 200, "")
    /\ \E u \in Existing :
          /\ users[u].is_active
          /\ users[u].invitation_accepted_at = now
          /\ now = users[u].invitation_sent_at + ExpiryDays
          /\ \E e \in outbox :
                /\ e.to = u
                /\ e.token # users[u].invitation_token
                /\ users[u].invitation_sent_at > e.at + ExpiryDays

\* The user's only membership is m
OnlyMembership(u, m) == MembershipsOf(u) = {m}

\* C11: the object permission is false whenever actor and target are the
\* same user, for every actor, superusers included.
C11_NoSelfManagement ==
    \A a \in Existing : ~has_object_permission(a, a)

\* C12: a superuser may manage every user, and no user without the
\* superuser flag may manage a superuser, whatever memberships the two
\* hold.
C12_SuperuserDominates ==
    \A a \in Existing : \A t \in Existing :
       /\ users[a].is_superuser => has_object_permission(a, t)
       /\ (~users[a].is_superuser /\ users[t].is_superuser)
             => ~has_object_permission(a, t)

\* C12 witness: a retrieve by a non-superuser was refused with 403 on a
\* superuser whose membership puts the row inside the actor's own
\* queryset.
C12_Witness ==
    /\ resp.op = "retrieve"
    /\ resp.status = 403
    /\ ~users[resp.actor].is_superuser
    /\ users[resp.target].is_superuser
    /\ has_permission(resp.actor)
    /\ resp.target \in get_queryset(resp.actor)

\* C13: a user whose only membership is group_admin on G may manage a
\* user whose only membership is property_admin on P exactly when P lies
\* in G, in the state before and in the state after every step that
\* leaves the two users alone: a move of P decides the very next check.
C13_GroupAdminScopeLive ==
    [][\A a \in Existing : \A t \in Existing \ {a} :
          \A g \in Groups : \A p \in PropertyIds :
             (/\ ~users[a].is_superuser
              /\ ~users[t].is_superuser
              /\ OnlyMembership(a, Membership(a, GROUP_ADMIN, 0, g))
              /\ OnlyMembership(t, Membership(t, PROPERTY_ADMIN, p, 0)))
                => /\ has_object_permission(a, t) = (property_group[p] = g)
                   /\ (users' = users /\ memberships' = memberships)
                         => has_object_permission(a, t)'
                               = (property_group'[p] = g)]_vars

\* C13 witness: property P was just given a group by an update, it is
\* not the group of the group admin, and the group admin may not manage
\* the property admin of P.
C13_Witness ==
    /\ resp.op = "property_update"
    /\ resp.status = 200
    /\ \E a \in Existing : \E t \in Existing \ {a} : \E g \in Groups :
          /\ ~users[a].is_superuser
          /\ ~users[t].is_superuser
          /\ OnlyMembership(a, Membership(a, GROUP_ADMIN, 0, g))
          /\ OnlyMembership(t, Membership(t, PROPERTY_ADMIN,
                                          resp.target, 0))
          /\ property_group[resp.target] # g
          /\ resp.actor = a
          /\ ~has_object_permission(a, t)

\* C14: for every user without the superuser flag and every set of
\* memberships, neither get_managed_users nor the management queryset of
\* the user contains the user itself.
C14_SelfExclusion ==
    \A u \in Existing :
       ~users[u].is_superuser
          => /\ u \notin get_managed_users(u)
             /\ u \notin get_queryset(u)

\* C15: can_create_role is true exactly for a superuser, for a holder of
\* group_admin on G assigning property_admin or tenant with group id G or
\* with a property of G, and for a holder of property_admin on P
\* assigning tenant on P; for every other actor, role and scope it is
\* false.
C15_AssignRoleExactly ==
    \A a \in Existing : \A role \in RoleChoices :
       \A p \in {0} \cup Properties : \A g \in {0} \cup Groups :
          can_create_role(a, role, p, g)
             = \/ users[a].is_superuser
               \/ \E G \in Groups :
                     /\ Membership(a, GROUP_ADMIN, 0, G) \in memberships
                     /\ role \in {PROPERTY_ADMIN, TENANT}
                     /\ \/ g = G
                        \/ p \in PropertyIds /\ property_group[p] = G
               \/ \E P \in Properties :
                     /\ Membership(a, PROPERTY_ADMIN, P, 0) \in memberships
                     /\ role = TENANT
                     /\ p = P

\* C15 witness: a role update on the tenant of property 1 was refused for
\* want of permission (which no superuser is), and the only user without
\* the superuser flag who passes the object check on that tenant is the
\* group admin of the property's group.
C15_Witness ==
    /\ resp = Response("update", 400, "permission")
    /\ \E a \in Existing : \E t \in TargetIds \cap Existing :
          /\ OnlyMembership(a, Membership(a, GROUP_ADMIN, 0, 1))
          /\ OnlyMembership(t, Membership(t, TENANT, 1, 0))
          /\ property_group[1] = 1
          /\ \A u \in Existing :
                ~users[u].is_superuser
                   => ((ObjectDenied(u, t) = "ok") = (u = a))

C17_StructureForEveryActor ==
    [][LET StructureOk(b) ==
               IF b.role = GROUP_ADMIN
               THEN b.property_group_id # 0 /\ b.property_id = 0
               ELSE IF b.role \in {PROPERTY_ADMIN, TENANT}
               THEN b.property_id # 0 /\ b.property_group_id = 0
               ELSE b.property_id = 0 /\ b.property_group_id = 0
           Refused(op) ==
               /\ resp' = Response(op, 400, "validation")
               /\ users' = users
               /\ memberships' = memberships
       IN  /\ (resp'.op = "create" /\ ~Refused("create"))
              => \A a \in Existing : \A b \in CreateBodies :
                    (/\ ~StructureOk(b)
                     /\ Create(a, b.role, b.property_id,
                               b.property_group_id, b.is_active))
                       => /\ resp'.status \in {400, 403}
                          /\ ~users[a].is_superuser
                          /\ users' = users
                          /\ memberships' = memberships
           /\ (resp'.op = "update" /\ ~Refused("update"))
              => \A a \in Existing : \A t \in TargetIds :
                    \A b \in UpdateBodies :
                       (/\ b.role # NoRole
                        /\ ~StructureOk(b)
                        /\ Update(a, t, b.role, b.property_id,
                                  b.property_group_id, b.is_active))
                          => /\ resp'.status \in {400, 403, 404}
                             /\ ~(users[a].is_superuser /\ t \in Existing)
                             /\ users' = users
                             /\ memberships' = memberships]_vars

\* C17 witness: the validation error answered a create while the only
\* user, and so the actor, is the superuser.
C17_Witness ==
    /\ resp = Response("create", 400, "validation")
    /\ Existing = {1}
    /\ users[1].is_superuser
    /\ memberships = {}

C19_ManageableUnion ==
    LET Granted(m) ==
            IF m.role = GROUP_ADMIN
            THEN {p \in PropertyIds : property_group[p] = m.property_group}
            ELSE IF m.role = PROPERTY_ADMIN THEN {m.property} ELSE {}
        GroupsGranted(m) ==
            IF m.role = GROUP_ADMIN THEN {m.property_group} ELSE {}
    IN  /\ \A a \in Existing :
              IF users[a].is_superuser
              THEN /\ get_managed_properties(a) = PropertyIds
                   /\ scopes_properties(a) = PropertyIds
                   /\ scopes_property_groups(a) = Groups
              ELSE /\ get_managed_properties(a)
                         = UNION {Granted(m) : m \in MembershipsOf(a)}
                   /\ scopes_properties(a) = get_managed_properties(a)
                   /\ scopes_property_groups(a)
                         = UNION {GroupsGranted(m) : m \in MembershipsOf(a)}
                   /\ MembershipsOf(a) = {}
                         => /\ get_managed_properties(a) = {}
                            /\ scopes_property_groups(a) = {}
        /\ \A a \in Existing : \A g \in Groups :
              (~users[a].is_superuser
                 /\ Membership(a, GROUP_ADMIN, 0, g) \in memberships)
                 => /\ (resp.op = "property_create"
                          /\ property_group[resp.target] = g)
                          => resp.target \in get_managed_properties(a)
                    /\ \A m \in memberships :
                          (/\ m.role \in {PROPERTY_ADMIN, TENANT}
                           /\ m.property \in PropertyIds
                           /\ property_group[m.property] = g)
                             => m.user \in get_managed_users(a)
                    /\ (OnlyMembership(a, Membership(a, GROUP_ADMIN, 0, g))
                          /\ GroupProperties(g) = {1})
                          => get_managed_properties(a) = {1}

\* C19 witness: the holder of nothing but group_admin on group 1 was
\* answered their manageable scopes while group 1 holds property 1 alone
\* and property 2 lies in the other group.
C19_Witness ==
    /\ resp.op = "my_manageable_scopes"
    /\ resp.status = 200
    /\ OnlyMembership(resp.actor, Membership(resp.actor, GROUP_ADMIN, 0, 1))
    /\ ~users[resp.actor].is_superuser
    /\ GroupProperties(1) = {1}
    /\ property_group[2] = 2
    /\ scopes_properties(resp.actor) = {1}

\* C20: the properties a user without the superuser flag sees are the
\* union over all their memberships: the properties of G for group_admin
\* on G, and P for property_admin or tenant on P.
C20_VisibleUnion ==
    \A a \in Existing :
       ~users[a].is_superuser
          => PropertyViewSet_get_queryset(a)
                = {p \in PropertyIds :
                     \E m \in MembershipsOf(a) :
                        \/ m.role = GROUP_ADMIN
                              /\ property_group[p] = m.property_group
                        \/ m.role \in {PROPERTY_ADMIN, TENANT}
                              /\ m.property = p}

\* C21: a property is created, changed or deleted only for an actor who
\* is a superuser or an admin with the property in scope: group admin of
\* the group a new property is put in, or manager of the property that is
\* changed or deleted.
C21_GatedByDecider ==
    [][(resp'.op \in {"property_create", "property_update",
                      "property_destroy"}
          /\ resp'.status \in {200, 201, 204})
         => \/ users[resp'.actor].is_superuser
            \/ /\ resp'.op = "property_create"
               /\ property_group'[resp'.target]
                     \in scopes_property_groups(resp'.actor)
            \/ /\ resp'.op # "property_create"
               /\ resp'.target \in get_managed_properties(resp'.actor)]_vars

\* C22: the primary role is super_user for a superuser, null for a user
\* without the flag and without memberships, and otherwise the role of
\* highest rank among the user's memberships, in whatever order the rows
\* are iterated; the token builder and the introspection view compute the
\* same role and the same membership list, and an introspection answer
\* carries that role and one entry for every membership of the user.
C22_PrimaryRole ==
    /\ \A u \in Existing : \A order \in Orders(u) :
          LET role == get_user_role(u, order)
              RoleRank(r) == IF r = GROUP_ADMIN THEN 3
                             ELSE IF r = PROPERTY_ADMIN THEN 2
                             ELSE IF r = TENANT THEN 1 ELSE 0
          IN
          /\ users[u].is_superuser => role = SUPER_USER
          /\ (~users[u].is_superuser /\ MembershipsOf(u) = {})
                => role = NoRole
          /\ (~users[u].is_superuser /\ MembershipsOf(u) # {})
                => /\ \E m \in MembershipsOf(u) : m.role = role
                   /\ \A m \in MembershipsOf(u) :
                         RoleRank(m.role) <= RoleRank(role)
          /\ introspect_get_user_role(u, order) = role
          /\ introspect_get_user_memberships(u, order)
                = get_user_memberships(u, order)
    /\ (resp.op = "introspect" /\ resp.status = 200)
          => /\ \A order \in Orders(resp.actor) :
                   resp.claims.role = get_user_role(resp.actor, order)
             /\ ~users[resp.actor].is_superuser
                   => {resp.claims.memberships[i] :
                         i \in DOMAIN resp.claims.memberships}
                      = {membership_data(m) : m \in MembershipsOf(resp.actor)}

\* C22 witness: an introspection answered group_admin for a user who
\* holds one membership of each role.
C22_Witness ==
    /\ resp.op = "introspect"
    /\ resp.status = 200
    /\ ~users[resp.actor].is_superuser
    /\ {m.role : m \in MembershipsOf(resp.actor)} = PropertyUserRole
    /\ resp.claims.role = GROUP_ADMIN
    /\ resp.claims.memberships[1].role = TENANT

\* C23: a token request whose credentials are accepted, whose app
\* reference resolves to an active app and whose user has access to that
\* app is answered 200 with claims that carry the resolved app; a request
\* that fails one of the checks is not answered 200.
C23_TokenAfterChecks ==
    resp.op = "obtain_token"
       => LET app == ResolveApp(resp.app_id, resp.app_slug)
              passes == /\ resp.status # 401
                        /\ app > 0
                        /\ has_access_to_app(resp.actor, app)
          IN  /\ passes => /\ resp.status = 200
                           /\ resp.claims.app_id = app
              /\ resp.status = 200 => passes

\* C24: a deactivation of the requesting, active user by that user (the
\* deactivate action, the soft delete of destroy, a management update
\* with is_active = false) is refused and leaves the user's is_active as
\* it was, for every actor, superusers included.
C24_NoSelfDeactivation ==
    [][\A a \in {u \in TargetIds \cap Existing : users[u].is_active} :
          /\ (resp'.op = "deactivate" /\ Deactivate(a, a))
                => resp'.status >= 400 /\ users' = users
          /\ (resp'.op = "destroy" /\ ~users[a].is_superuser
                /\ Destroy(a, a))
                => resp'.status >= 400 /\ users' = users
          /\ resp'.op = "update"
                => \A b \in UpdateBodies :
                      (/\ b.is_active = "false"
                       /\ Update(a, a, b.role, b.property_id,
                                 b.property_group_id, b.is_active))
                         => /\ resp'.status >= 400
                            /\ users'[a].is_active = users[a].is_active]_vars

\* C25: the row create_superuser has just written is active, and the row
\* a management create has just written is inactive unless it is a
\* superuser's.
C25_NewUserActivity ==
    /\ resp.op = "init"
          => \A u \in Existing : users[u].is_superuser => users[u].is_active
    /\ resp = Response("create", 201, "")
          => (~users[nextId - 1].is_superuser
                 => ~users[nextId - 1].is_active)

\* C26: for every pair of distinct users with an actor who is not a
\* superuser, the object permission, membership of the target in
\* get_managed_users (the resend check) and membership in the viewset's
\* queryset agree.
C26_SameDecision ==
    \A a \in Existing : \A t \in Existing \ {a} :
       ~users[a].is_superuser
          => /\ has_object_permission(a, t) = (t \in get_managed_users(a))
             /\ (t \in get_managed_users(a)) = (t \in get_queryset(a))

\* C29: every membership that a management create or update by user 1,
\* the only actor of AssignSpec and not a superuser, adds to the table
\* lies in that user's scope and below their rank: property_admin or
\* tenant on a property of G for a group_admin of G, tenant on P for a
\* property_admin of P.  This holds for every combination of role,
\* property id and group id in the request.
C29_AssignedInScope ==
    [][(resp'.op \in {"create", "update"} /\ resp'.status \in {200, 201})
         => \A m \in memberships' \ memberships :
               \/ \E rm \in MembershipsOf(1) :
                     /\ rm.role = GROUP_ADMIN
                     /\ m.role \in {PROPERTY_ADMIN, TENANT}
                     /\ m.property \in GroupProperties(rm.property_group)
               \/ \E rm \in MembershipsOf(1) :
                     /\ rm.role = PROPERTY_ADMIN
                     /\ m.role = TENANT
                     /\ m.property = rm.property]_vars

\* C29 witness: the new user 3 was created as tenant of property 1 while
\* user 1 holds nothing but property_admin on property 1.
C29_Witness ==
    /\ resp = Response("create", 201, "")
    /\ OnlyMembership(1, Membership(1, PROPERTY_ADMIN, 1, 0))
    /\ ~users[1].is_superuser
    /\ OnlyMembership(3, Membership(3, TENANT, 1, 0))

\* C27: when redeem requests for the same valid token interleave, every
\* one that passed the checks reports success, no request crashes, and
\* each save leaves the row as one successful redeem leaves it: active,
\* accepted, with the token it had; a save on a row that another redeem
\* has already accepted changes nothing but the acceptance time, and no
\* other row changes.
C27_BenignDoubleRedeem ==
    [][/\ resp'.status # 500
       /\ \A r \in ProcIds :
             (pending[r].op = "redeem" /\ pending[r].pc = "write"
                /\ pending'[r].pc = "done")
                => LET t == pending[r].target IN
                   /\ resp' = Response("redeem", 200, "")
                   /\ pending'[r].status = 200
                   /\ users'[t].is_active
                   /\ users'[t].invitation_accepted
                   /\ users'[t].invitation_token = users[t].invitation_token
                   /\ users[t].invitation_accepted
                         => users' = [users EXCEPT
                                        ![t].invitation_accepted_at = now]
                   /\ \A u \in Existing \ {t} : users'[u] = users[u]]_vars

\* C27 witness: both workers have reported success for a redeem, which
\* only happens when the second one read the row before the first one
\* saved it, and the row is active and accepted with its token.
C27_Witness ==
    /\ \A r \in ProcIds :
          /\ pending[r].op = "redeem"
          /\ pending[r].pc = "done"
          /\ pending[r].status = 200
    /\ users[ConcTarget].is_active
    /\ users[ConcTarget].invitation_accepted
    /\ users[ConcTarget].invitation_token = 1


\* C30: no committed change to the invited user's is_active or invitation
\* fields is lost to a request that read the row earlier: an accepted
\* invitation stays accepted, a deactivate leaves the stored token alone,
\* and a redeem that finishes on an accepted, deactivated row does not
\* activate it again
C30_NoLostUpdate ==
    [][/\ users[ConcTarget].invitation_accepted
            => users'[ConcTarget].invitation_accepted
       /\ \A r \in ProcIds :
            DeactivateWrite(r)
               => users'[ConcTarget].invitation_token
                     = users[ConcTarget].invitation_token
       /\ \A r \in ProcIds :
            (RedeemWrite(r) /\ users[ConcTarget].invitation_accepted)
               => users'[ConcTarget].is_active
                     = users[ConcTarget].is_active]_vars

\* C28: a create or a role-changing update applies all of its effects or
\* none: in every state each user row is either a superuser with the staff
\* flag and no membership, or has exactly one membership and the staff flag
\* of that membership's role
C28_AtomicWrites ==
    \A u \in Existing :
        IF users[u].is_superuser
        THEN users[u].is_staff /\ MembershipsOf(u) = {}
        ELSE \E m \in MembershipsOf(u) :
                /\ MembershipsOf(u) = {m}
                /\ users[u].is_staff
                      = (m.role \in {PROPERTY_ADMIN, GROUP_ADMIN})

====
